---- MODULE Spec2Model ----
(***************************************************************************)
(* Model of the profile analysis tool of gift_analyzer.py: the expiring    *)
(* on-disk cache (TwitterCache), the rate-limited API client               *)
(* (TwitterAPIv2) and the entry point analyze_twitter_profile.             *)
(*                                                                         *)
(* Time is counted in seconds.  Strings that the code inspects character   *)
(* by character (the handle) are sequences of one-character strings.       *)
(* A Python call is modelled by an operator that returns the call's        *)
(* outcome, [tag |-> "return", v |-> value] or [tag |-> "raise", v |->     *)
(* error], together with the state it leaves behind.                       *)
(***************************************************************************)
EXTENDS Integers, Sequences, FiniteSets, TLC

VARIABLES
    now,          \* the wall clock, datetime.now(), in seconds
    cache,        \* the cache directory: cache path -> record on disk
    rate_limit,   \* self.rate_limit of the API client in use
    window_calls, \* history: HTTP 200 answers the client got in its current window
    steps,        \* history: the operations performed so far
    last          \* history: what the most recent operation did

vars == <<now, cache, rate_limit, window_calls, steps, last>>

(***************************************************************************)
(* Program constants                                                       *)
(***************************************************************************)
\* self.cache_duration = timedelta(hours=24)
CacheDuration == 86400
\* rate_limit["requests_per_window"]
RequestsPerWindow == 25
\* rate_limit["window_size"], in minutes
WindowSizeMinutes == 15
\* the buffer of _check_rate_limit: remaining <= 2 refuses
ReservedBuffer == 2
\* for attempt in range(3)
MaxAttempts == 3
\* time.sleep(2) between two attempts of get_user_by_username
RetryDelay == 2
\* the posts gate of analyze_twitter_profile: rate_limit["remaining"] > 1
PostsGate == 1

\* timedelta(minutes=m) in seconds
Minutes(m) == m * 60

(***************************************************************************)
(* Bounds of the model                                                     *)
(***************************************************************************)
\* how many operations one behaviour of the application or of a client has
MaxSteps == 3
\* how many HTTP 200 answers one client may get in one window
MaxWindowCalls == 26

(***************************************************************************)
(* Strings: str.strip() and str.lstrip('@')                                *)
(***************************************************************************)
RECURSIVE DropLeading(_, _)
\* s without its longest prefix made of characters of chars
DropLeading(s, chars) ==
    IF s # <<>> /\ Head(s) \in chars THEN DropLeading(Tail(s), chars) ELSE s

RECURSIVE DropTrailing(_, _)
DropTrailing(s, chars) ==
    IF s # <<>> /\ s[Len(s)] \in chars
    THEN DropTrailing(SubSeq(s, 1, Len(s) - 1), chars)
    ELSE s

\* str.strip(): leading and trailing whitespace removed
Strip(s) == DropTrailing(DropLeading(s, {" "}), {" "})

\* str.lstrip('@'): leading '@' characters removed
LStripAt(s) == DropLeading(s, {"@"})

\* username = username.strip().lstrip('@')
NormaliseUsername(username) == LStripAt(Strip(username))

\* not username or not username.strip()
IsInvalidUsername(username) == username = <<>> \/ Strip(username) = <<>>

(***************************************************************************)
(* Values: payloads, errors and the outcome of a call                      *)
(***************************************************************************)
\* Python's None
None == [kind |-> "None"]

\* F(e), with e evaluated once
Let(e, F(_)) == CHOOSE r \in {F(x) : x \in {e}} : TRUE

Return(v) == [tag |-> "return", v |-> v]
Raise(e) == [tag |-> "raise", v |-> e]

\* Exception(msg); arg is the number formatted into the message, if any.
\* The messages of the source: "达到速率限制..." (rate_limit_reached),
\* "用户不存在" (user_not_found), "认证失败..." (auth_failed),
\* "API请求失败: <status>" (api_request_failed), "网络请求失败: ..."
\* (network_request_failed).
Error(msg, arg) == [kind |-> "error", msg |-> msg, arg |-> arg]
RateLimitError(wait) == Error("rate_limit_reached", wait)
UserNotFoundError == Error("user_not_found", 0)
AuthFailedError == Error("auth_failed", 0)
ApiRequestFailedError(status) == Error("api_request_failed", status)
NetworkError == Error("network_request_failed", 0)
\* what json.load / datetime.fromisoformat / cached_data['timestamp'] raise
CacheReadError == Error("cache_record_unreadable", 0)

\* "<text>" in str(e), for the two texts analyze_twitter_profile looks for
MessageContains(e, text) == e.msg = text

\* The JSON bodies the profile endpoint answers with status 200: two snapshots
\* of the same profile, and a body without the 'data' key ({"errors": [...]}).
UserPayloads ==
    { [kind |-> "user", has_data |-> TRUE, id |-> "id1", followers |-> 1],
      [kind |-> "user", has_data |-> TRUE, id |-> "id1", followers |-> 2],
      [kind |-> "user", has_data |-> FALSE, id |-> "", followers |-> 0] }

\* The JSON bodies of the posts endpoint: no 'data' key ({"meta": ...}),
\* or a 'data' list of posts.
TweetsPayloads ==
    { [kind |-> "tweets", has_data |-> FALSE, data |-> <<>>],
      [kind |-> "tweets", has_data |-> TRUE, data |-> <<>>],
      [kind |-> "tweets", has_data |-> TRUE,
       data |-> <<[text |-> "t1"], [text |-> "t2"]>>] }

\* {"data": []}
EmptyTweets == [kind |-> "tweets", has_data |-> TRUE, data |-> <<>>]

\* What one requests.get does: it returns an HTTP response, or it raises a
\* RequestException.
Response(status, body) == [raised |-> FALSE, status |-> status, body |-> body]
NetworkFailure == [raised |-> TRUE, status |-> 0, body |-> None]
\* The statuses the profile call tells apart (404, 401) and two it does not.
UserFailureStatuses == {401, 404, 429, 500}
UserAnswers ==
    {Response(200, p) : p \in UserPayloads}
    \cup {Response(st, None) : st \in UserFailureStatuses}
\* The status the posts call tells apart (404) and one it does not.
TweetsFailureStatuses == {404, 429}
TweetsAnswers ==
    {Response(200, p) : p \in TweetsPayloads}
    \cup {Response(st, None) : st \in TweetsFailureStatuses}
    \cup {NetworkFailure}

\* The responses that end a call after one or two network failures.
RetryAnswers ==
    {Response(200, p) : p \in {q \in UserPayloads : q.followers = 1}}
    \cup {Response(404, None)}

\* What the network does to the attempts of one get_user_by_username call:
\* network failures, ended by a response or by the third failure.
UserScripts ==
    {<<a>> : a \in UserAnswers}
    \cup {<<NetworkFailure, a>> : a \in RetryAnswers}
    \cup {<<NetworkFailure, NetworkFailure, a>> :
            a \in RetryAnswers \cup {NetworkFailure}}

(***************************************************************************)
(* TwitterCache                                                            *)
(***************************************************************************)
\* The handles typed into the application.
RawInputs ==
    { <<>>, <<" ">>, <<"@">>, <<" ", "@", "@", " ">>,
      <<"a">>, <<"@", "a">> }

\* The usernames the API client is called with.
Usernames == {NormaliseUsername(s) : s \in RawInputs}

\* f"user_{username}"
UserKey(username) == <<"user_">> \o username

\* _get_cache_path: the file named by the MD5 digest of the key (distinct
\* keys have distinct digests).
GetCachePath(key) == <<".cache", <<"md5", key>>, ".json">>

\* The key of the posts of user_id.
TweetsKey(user_id) == <<"tweets_", user_id>>

UserIds == {p.id : p \in {q \in UserPayloads : q.has_data}}

CacheKeys == {UserKey(u) : u \in Usernames} \cup {TweetsKey(i) : i \in UserIds}
CachePaths == {GetCachePath(k) : k \in CacheKeys}

\* A file of the cache directory: missing, not a readable record, or a record.
Absent == [kind |-> "absent"]
Corrupt == [kind |-> "corrupt"]
Record(timestamp, data) ==
    [kind |-> "record", timestamp |-> timestamp, data |-> data]

\* TwitterCache.get at time t: the outcome of the call.
CacheGet(c, key, t) ==
    LET cached_data == c[GetCachePath(key)] IN
    IF cached_data.kind = "absent" THEN Return(None)
    ELSE IF cached_data.kind = "corrupt" THEN Raise(CacheReadError)
    ELSE IF t - cached_data.timestamp < CacheDuration
         THEN Return(cached_data.data)
         ELSE Return(None)

\* A set that keeps the record a key already has.
CacheSetIfAbsent(c, key, data, t) ==
    IF c[GetCachePath(key)].kind = "absent"
    THEN [c EXCEPT ![GetCachePath(key)] = Record(t, data)]
    ELSE c

\* TwitterCache.set at time t: the cache directory afterwards.
CacheSet(c, key, data, t) ==
    [c EXCEPT ![GetCachePath(key)] = Record(t, data)]

(***************************************************************************)
(* TwitterAPIv2: the rate limiter                                          *)
(***************************************************************************)
\* self.rate_limit as __init__ builds it at time t
NewRateLimit(t) ==
    [remaining |-> RequestsPerWindow,
     reset_time |-> t + Minutes(WindowSizeMinutes),
     requests_per_window |-> RequestsPerWindow,
     window_size |-> WindowSizeMinutes]

\* A rate check that starts the new window at the old reset time instead of
\* the current time.
CheckRateLimitStaleReset(rl, t) ==
    LET expired == t >= rl.reset_time
        rl1 == IF expired
               THEN [rl EXCEPT !.remaining = rl.requests_per_window,
                               !.reset_time =
                                   rl.reset_time + Minutes(rl.window_size)]
               ELSE rl
        wait_time == rl1.reset_time - t
        refused == rl1.remaining <= ReservedBuffer /\ wait_time > 0
    IN [rate_limit |-> rl1,
        result |-> IF refused THEN Raise(RateLimitError(wait_time))
                   ELSE Return(None),
        at |-> t, before |-> rl, expired |-> expired]

\* _check_rate_limit at time t: the limiter afterwards and whether the
\* call raised.
CheckRateLimit(rl, t) ==
    LET expired == t >= rl.reset_time
        rl1 == IF expired
               THEN [rl EXCEPT !.remaining = rl.requests_per_window,
                               !.reset_time = t + Minutes(rl.window_size)]
               ELSE rl
        wait_time == rl1.reset_time - t
        refused == rl1.remaining <= ReservedBuffer /\ wait_time > 0
    IN [rate_limit |-> rl1,
        result |-> IF refused THEN Raise(RateLimitError(wait_time))
                   ELSE Return(None),
        at |-> t, before |-> rl, expired |-> expired]

(***************************************************************************)
(* TwitterAPIv2.get_user_by_username                                       *)
(***************************************************************************)
\* What one response does to the call (the if/elif chain on status_code):
\* status 200 returns the body, every other status raises.
UserResponseOutcome(answer) ==
    IF answer.status = 200 THEN Return(answer.body)
    ELSE IF answer.status = 404 THEN Raise(UserNotFoundError)
    ELSE IF answer.status = 401 THEN Raise(AuthFailedError)
    ELSE Raise(ApiRequestFailedError(answer.status))

RECURSIVE UserAttemptsGivesUpEarly(_, _, _, _, _)
\* A loop that treats the second iteration as the last one.
UserAttemptsGivesUpEarly(attempt, username, script, c, t) ==
    LET answer == script[attempt + 1] IN
    IF answer.raised
    THEN IF attempt = MaxAttempts - 2
         THEN [result |-> Raise(NetworkError), cache |-> c, now |-> t,
               requests |-> attempt + 1, ok |-> 0]
         ELSE UserAttemptsGivesUpEarly(attempt + 1, username, script, c,
                                       t + RetryDelay)
    ELSE [result |-> UserResponseOutcome(answer),
          cache |-> IF answer.status = 200
                    THEN CacheSet(c, UserKey(username), answer.body, t)
                    ELSE c,
          now |-> t, requests |-> attempt + 1,
          ok |-> IF answer.status = 200 THEN 1 ELSE 0]

RECURSIVE UserAttempts(_, _, _, _, _)
\* The loop "for attempt in range(3)" from iteration attempt on, under the
\* answers of script: the outcome of the try body, the cache and the clock
\* afterwards, the requests issued and the 200 answers received.
UserAttempts(attempt, username, script, c, t) ==
    LET answer == script[attempt + 1] IN
    IF answer.raised
    THEN IF attempt = MaxAttempts - 1
         THEN [result |-> Raise(NetworkError), cache |-> c, now |-> t,
               requests |-> attempt + 1, ok |-> 0]
         ELSE UserAttempts(attempt + 1, username, script, c, t + RetryDelay)
    ELSE [result |-> UserResponseOutcome(answer),
          cache |-> IF answer.status = 200
                    THEN CacheSet(c, UserKey(username), answer.body, t)
                    ELSE c,
          now |-> t, requests |-> attempt + 1,
          ok |-> IF answer.status = 200 THEN 1 ELSE 0]

\* A handler that lets "user not found" through without reading the cache.
UserFallbackSkipsNotFound(e, cached) ==
    IF e = UserNotFoundError THEN Raise(e)
    ELSE IF cached.tag = "raise" THEN cached
    ELSE IF cached.v # None THEN Return(cached.v)
    ELSE Raise(e)

\* The handler "except Exception as e" of get_user_by_username, given the
\* error e of the try body and the outcome of the cache read it makes.
UserFallback(e, cached) ==
    IF cached.tag = "raise" THEN cached
    ELSE IF cached.v # None THEN Return(cached.v)
    ELSE Raise(e)

\* get_user_by_username(username) on a client with limiter rl, at time t,
\* under the answers of script.
GetUserByUsername(username, script, c, rl, t) ==
    LET check == CheckRateLimit(rl, t)
        body == IF check.result.tag = "raise"
                THEN [result |-> check.result, cache |-> c, now |-> t,
                      requests |-> 0, ok |-> 0]
                ELSE UserAttempts(0, username, script, c, t)
        failed == body.result.tag = "raise"
        cached == CacheGet(body.cache, UserKey(username), body.now)
        result == IF failed THEN UserFallback(body.result.v, cached)
                  ELSE body.result
    IN [result |-> result,
        cache |-> body.cache,
        rate_limit |-> check.rate_limit,
        now |-> body.now,
        ok |-> body.ok,
        trace |-> [called |-> TRUE,
                   username |-> username,
                   key |-> UserKey(username),
                   fresh_before |-> CacheGet(c, UserKey(username), t),
                   rate_checks |-> 1,
                   check |-> check,
                   requests |-> body.requests,
                   answers |-> SubSeq(script, 1, body.requests),
                   body |-> body.result,
                   cache_reads |-> IF failed THEN 1 ELSE 0,
                   cached |-> IF failed THEN cached ELSE Return(None),
                   ended_at |-> body.now,
                   result |-> result]]

(***************************************************************************)
(* TwitterAPIv2.get_user_tweets                                            *)
(***************************************************************************)
\* The try body after the rate check: one request, answered by answer.
TweetsResponseOutcome(answer) ==
    IF answer.raised THEN Raise(NetworkError)
    ELSE IF answer.status = 200 THEN Return(answer.body)
    ELSE IF answer.status = 404 THEN Return(EmptyTweets)
    ELSE Raise(Error("get_tweets_failed", answer.status))

\* A handler that logs the error and raises it again.
TweetsFallbackReraises(e) == Raise(e)

\* The handler "except Exception as e" of get_user_tweets.
TweetsFallback(e) == Return(EmptyTweets)

\* A posts fetch that writes the payload of a 200 answer to the cache.
GetUserTweetsCaches(user_id, answer, c, rl, t) ==
    LET check == CheckRateLimit(rl, t)
        body == IF check.result.tag = "raise" THEN check.result
                ELSE TweetsResponseOutcome(answer)
        requested == check.result.tag = "return"
        fetched == requested /\ ~answer.raised /\ answer.status = 200
        result == IF body.tag = "raise" THEN TweetsFallback(body.v) ELSE body
    IN [result |-> result,
        cache |-> IF fetched
                  THEN CacheSet(c, TweetsKey(user_id), answer.body, t)
                  ELSE c,
        rate_limit |-> check.rate_limit,
        now |-> t,
        ok |-> IF fetched THEN 1 ELSE 0,
        trace |-> [called |-> TRUE,
                   user_id |-> user_id,
                   rate_checks |-> 1,
                   check |-> check,
                   requests |-> IF requested THEN 1 ELSE 0,
                   answer |-> answer,
                   body |-> body,
                   ended_at |-> t,
                   result |-> result]]

\* get_user_tweets(user_id) on a client with limiter rl, at time t.
GetUserTweets(user_id, answer, c, rl, t) ==
    LET check == CheckRateLimit(rl, t)
        body == IF check.result.tag = "raise" THEN check.result
                ELSE TweetsResponseOutcome(answer)
        requested == check.result.tag = "return"
        result == IF body.tag = "raise" THEN TweetsFallback(body.v) ELSE body
    IN [result |-> result,
        cache |-> c,
        rate_limit |-> check.rate_limit,
        now |-> t,
        ok |-> IF requested /\ answer.status = 200 THEN 1 ELSE 0,
        trace |-> [called |-> TRUE,
                   user_id |-> user_id,
                   rate_checks |-> 1,
                   check |-> check,
                   requests |-> IF requested THEN 1 ELSE 0,
                   answer |-> answer,
                   body |-> body,
                   ended_at |-> t,
                   result |-> result]]

NotCalled == [called |-> FALSE]

(***************************************************************************)
(* analyze_twitter_profile                                                 *)
(***************************************************************************)
\* The strings analyze_twitter_profile returns.  error is the exception whose
\* text the report embeds, posts the posts the report was computed from.
Report(title, error, posts) ==
    [kind |-> "report", title |-> title, error |-> error,
     total_tweets |-> Len(posts), posts |-> posts]
InvalidUsernameReport == Report("invalid_username", None, <<>>)
InvalidUserDataReport == Report("invalid_user_data", None, <<>>)
UserNotFoundReport == Report("user_not_found", None, <<>>)
AuthFailedReport == Report("auth_failed", None, <<>>)
AnalysisFailedReport(e) == Report("analysis_failed", e, <<>>)
\* tweets_data.get('data', [])
PostsOf(tweets_data) == IF tweets_data.has_data THEN tweets_data.data ELSE <<>>
AnalysisReport(tweets_data) ==
    Report("analysis_report", None, PostsOf(tweets_data))

\* An inner handler without the "user not found" branch.
InnerHandlerAuthOnly(e) ==
    IF MessageContains(e, "auth_failed") THEN Return(AuthFailedReport)
    ELSE Raise(e)

\* The inner handler "except Exception as e": two errors become reports,
\* every other error is raised again.
InnerHandler(e) ==
    IF MessageContains(e, "user_not_found") THEN Return(UserNotFoundReport)
    ELSE IF MessageContains(e, "auth_failed") THEN Return(AuthFailedReport)
    ELSE Raise(e)

\* An outer handler that catches network errors only.
OuterHandlerNetworkOnly(e) ==
    IF MessageContains(e, "network_request_failed")
    THEN Return(AnalysisFailedReport(e))
    ELSE Raise(e)

\* The outer handler "except Exception as e".
OuterHandler(e) == Return(AnalysisFailedReport(e))

\* The posts step of the inner try body, once get_user_by_username returned
\* user_data with a 'data' key: u is what that call left behind.
PostsStep(user_data, answer, u) ==
    IF u.rate_limit.remaining > PostsGate
    THEN GetUserTweets(user_data.id, answer, u.cache, u.rate_limit, u.now)
    ELSE [result |-> Return(EmptyTweets), cache |-> u.cache,
          rate_limit |-> u.rate_limit, now |-> u.now, ok |-> 0,
          trace |-> NotCalled]

\* An inner try body that goes on to the posts whenever the profile call
\* returned, with or without 'data' in the payload.
InnerBodySkipsDataCheck(username, script, answer, c, rl, t) ==
    Let(GetUserByUsername(username, script, c, rl, t), LAMBDA u :
    IF u.result.tag = "raise"
    THEN [result |-> u.result,
          cache |-> u.cache, rate_limit |-> u.rate_limit, now |-> u.now,
          ok |-> u.ok, user |-> u.trace, tweets |-> NotCalled]
    ELSE LET p == PostsStep(u.result.v, answer, u)
             tweets_data == IF p.result.tag = "raise" THEN EmptyTweets
                            ELSE p.result.v
         IN
         [result |-> Return(AnalysisReport(tweets_data)),
          cache |-> p.cache, rate_limit |-> p.rate_limit, now |-> p.now,
          ok |-> u.ok + p.ok, user |-> u.trace, tweets |-> p.trace])

\* The inner try body for the normalised username, on a client with limiter
\* rl: the outcome, the state left behind and what the two API calls did.
InnerBody(username, script, answer, c, rl, t) ==
    Let(GetUserByUsername(username, script, c, rl, t), LAMBDA u :
    IF u.result.tag = "raise" \/ ~u.result.v.has_data
    THEN [result |-> IF u.result.tag = "raise" THEN u.result
                     ELSE Return(InvalidUserDataReport),
          cache |-> u.cache, rate_limit |-> u.rate_limit, now |-> u.now,
          ok |-> u.ok, user |-> u.trace, tweets |-> NotCalled]
    ELSE LET p == PostsStep(u.result.v, answer, u)
             \* "except Exception" around the call leaves {"data": []}
             tweets_data == IF p.result.tag = "raise" THEN EmptyTweets
                            ELSE p.result.v
         IN
         [result |-> Return(AnalysisReport(tweets_data)),
          cache |-> p.cache, rate_limit |-> p.rate_limit, now |-> p.now,
          ok |-> u.ok + p.ok, user |-> u.trace, tweets |-> p.trace])

\* The two nested handlers applied to the outcome of the inner try body.
Handlers(outcome) ==
    IF outcome.tag = "return" THEN outcome
    ELSE LET inner == InnerHandler(outcome.v) IN
         IF inner.tag = "return" THEN inner ELSE OuterHandler(inner.v)

\* analyze_twitter_profile(username) at time t with the cache directory c,
\* under the answers of script (profile) and answer (posts).
AnalyzeTwitterProfile(username, script, answer, c, t) ==
    LET api == NewRateLimit(t) IN
    IF IsInvalidUsername(username)
    THEN [result |-> Return(InvalidUsernameReport), cache |-> c,
          rate_limit |-> api, now |-> t, ok |-> 0,
          user |-> NotCalled, tweets |-> NotCalled]
    ELSE Let(InnerBody(NormaliseUsername(username), script, answer, c, api, t),
             LAMBDA b : [b EXCEPT !.result = Handlers(b.result)])

(***************************************************************************)
(* The application: every analysis builds its own client                   *)
(***************************************************************************)
\* The clock advances by a window or by the cache duration.
TickSteps == {Minutes(WindowSizeMinutes), CacheDuration}

NoOperation == [op |-> "none", user |-> NotCalled, tweets |-> NotCalled]

InitCommon ==
    /\ now = 0
    /\ cache = [p \in CachePaths |-> Absent]
    /\ window_calls = 0
    /\ steps = 0
    /\ last = NoOperation

Init ==
    /\ InitCommon
    /\ rate_limit = None

\* The answers the network may give during one run: answers no request of
\* the run asks for are left out (the run does not depend on them).
NoScript == <<NetworkFailure, NetworkFailure, NetworkFailure>>
ScriptsFor(username) ==
    IF IsInvalidUsername(username) THEN {NoScript} ELSE UserScripts
AnswersFor(username, script, c, t) ==
    IF AnalyzeTwitterProfile(username, script, NetworkFailure, c, t).tweets.called
    THEN TweetsAnswers
    ELSE {NetworkFailure}

\* One run of analyze_twitter_profile.
Analyze ==
    /\ steps < MaxSteps
    /\ \E username \in RawInputs :
       \E script \in ScriptsFor(username) :
       \E answer \in AnswersFor(username, script, cache, now) :
       \E r \in {AnalyzeTwitterProfile(username, script, answer, cache, now)} :
           /\ now' = r.now
           /\ cache' = r.cache
           /\ rate_limit' = r.rate_limit
           /\ window_calls' = r.ok
           /\ steps' = steps + 1
           /\ last' = [op |-> "analyze_twitter_profile",
                       result |-> r.result, user |-> r.user,
                       tweets |-> r.tweets, calls_before |-> 0]

\* Time passes.
Tick ==
    /\ steps < MaxSteps
    /\ \E d \in TickSteps :
           /\ now' = now + d
           /\ steps' = steps + 1
           /\ UNCHANGED <<cache, rate_limit, window_calls, last>>

\* A record of the cache directory is damaged from outside the program.
CorruptRecord ==
    /\ steps < MaxSteps
    /\ \E p \in CachePaths :
           /\ cache[p].kind = "record"
           /\ cache' = [cache EXCEPT ![p] = Corrupt]
           /\ steps' = steps + 1
           /\ last' = [op |-> "corrupt_record", path |-> p,
                       user |-> NotCalled, tweets |-> NotCalled]
           /\ UNCHANGED <<now, rate_limit, window_calls>>

Next == Analyze \/ Tick \/ CorruptRecord

Spec == Init /\ [][Next]_vars

(***************************************************************************)
(* One API client, called any number of times                              *)
(***************************************************************************)
InitClient ==
    /\ InitCommon
    /\ rate_limit = NewRateLimit(0)

\* The window count after a call: a reset of the window starts a new count.
CallsAfter(check, ok) == (IF check.expired THEN 0 ELSE window_calls) + ok

\* client.get_user_by_username(username), answered by script
CallGetUser(username, script) ==
    \E r \in {GetUserByUsername(username, script, cache, rate_limit, now)} :
        /\ now' = r.now
        /\ cache' = r.cache
        /\ rate_limit' = r.rate_limit
        /\ window_calls' = CallsAfter(r.trace.check, r.ok)
        /\ steps' = steps + 1
        /\ last' = [op |-> "get_user_by_username", input |-> username,
                    result |-> r.result, user |-> r.trace,
                    tweets |-> NotCalled, calls_before |-> window_calls]

\* client.get_user_tweets(user_id), answered by answer
CallGetTweets(user_id, answer) ==
    \E r \in {GetUserTweets(user_id, answer, cache, rate_limit, now)} :
        /\ now' = r.now
        /\ cache' = r.cache
        /\ rate_limit' = r.rate_limit
        /\ window_calls' = CallsAfter(r.trace.check, r.ok)
        /\ steps' = steps + 1
        /\ last' = [op |-> "get_user_tweets", input |-> user_id,
                    result |-> r.result, user |-> NotCalled,
                    tweets |-> r.trace, calls_before |-> window_calls]

ClientGetUser ==
    /\ steps < MaxSteps
    /\ \E username \in Usernames, script \in UserScripts :
           CallGetUser(username, script)

ClientGetTweets ==
    /\ steps < MaxSteps
    /\ \E user_id \in UserIds, answer \in TweetsAnswers :
           CallGetTweets(user_id, answer)

NextClient == ClientGetUser \/ ClientGetTweets \/ Tick \/ CorruptRecord

SpecClient == InitClient /\ [][NextClient]_vars

(***************************************************************************)
(* One API client within one window, every request answered with 200       *)
(***************************************************************************)
QuotaGetUser ==
    /\ window_calls < MaxWindowCalls
    /\ \E username \in Usernames, p \in UserPayloads :
           CallGetUser(username, <<Response(200, p)>>)

QuotaGetTweets ==
    /\ window_calls < MaxWindowCalls
    /\ \E user_id \in UserIds, p \in TweetsPayloads :
           CallGetTweets(user_id, Response(200, p))

NextQuota == QuotaGetUser \/ QuotaGetTweets

SpecQuota == InitClient /\ [][NextQuota]_vars

(***************************************************************************)
(* GiftAnalyzer                                                            *)
(***************************************************************************)
\* how many posts one analysed timeline has
MaxPosts == 3

\* self.interest_gift_mapping, in the order the dict literal defines it.  A
\* string the code searches in is the sequence of its characters, each
\* written as its code point.
InterestGiftMapping ==
    << [category |-> "keji",  \* 科技
        gifts |->
            << <<"u667A", "u80FD", "u624B", "u8868">>,  \* 智能手表
               <<"u65E0", "u7EBF", "u8033", "u673A">>,  \* 无线耳机
               <<"u5E73", "u677F", "u7535", "u8111">>,  \* 平板电脑
               <<"u667A", "u80FD", "u97F3", "u7BB1">> >>  \* 智能音箱
       ],
       [category |-> "youxi",  \* 游戏
        gifts |->
            << <<"u6E38", "u620F", "u673A">>,  \* 游戏机
               <<"u6E38", "u620F", "u5468", "u8FB9">>,  \* 游戏周边
               <<"u6E38", "u620F", "u793C", "u54C1", "u5361">>,  \* 游戏礼品卡
               <<"u6E38", "u620F", "u624B", "u67C4">> >>  \* 游戏手柄
       ],
       [category |-> "yinyue",  \* 音乐
        gifts |->
            << <<"u97F3", "u4E50", "u4F1A", "u95E8", "u7968">>,  \* 音乐会门票
               <<"u84DD", "u7259", "u97F3", "u7BB1">>,  \* 蓝牙音箱
               <<"u97F3", "u4E50", "u8BA2", "u9605", "u670D", "u52A1">>,  \* 音乐订阅服务
               <<"u4E50", "u5668">> >>  \* 乐器
       ],
       [category |-> "meishi",  \* 美食
        gifts |->
            << <<"u7F8E", "u98DF", "u793C", "u5238">>,  \* 美食礼券
               <<"u70F9", "u996A", "u5DE5", "u5177">>,  \* 烹饪工具
               <<"u7CBE", "u54C1", "u8336", "u5177">>,  \* 精品茶具
               <<"u5496", "u5561", "u5668", "u5177">> >>  \* 咖啡器具
       ],
       [category |-> "yundong",  \* 运动
        gifts |->
            << <<"u8FD0", "u52A8", "u624B", "u73AF">>,  \* 运动手环
               <<"u8FD0", "u52A8", "u88C5", "u5907">>,  \* 运动装备
               <<"u5065", "u8EAB", "u5668", "u6750">>,  \* 健身器材
               <<"u8FD0", "u52A8", "u978B">> >>  \* 运动鞋
       ],
       [category |-> "dushu",  \* 读书
        gifts |->
            << <<"u7535", "u5B50", "u4E66", "u9605", "u8BFB", "u5668">>,  \* 电子书阅读器
               <<"u7CBE", "u88C5", "u56FE", "u4E66">>,  \* 精装图书
               <<"u8BFB", "u4E66", "u8BA2", "u9605">>,  \* 读书订阅
               <<"u4E66", "u7B7E">> >>  \* 书签
       ],
       [category |-> "yishu",  \* 艺术
        gifts |->
            << <<"u827A", "u672F", "u753B", "u4F5C">>,  \* 艺术画作
               <<"u624B", "u5DE5", "u827A", "u54C1">>,  \* 手工艺品
               <<"u76F8", "u673A">>,  \* 相机
               <<"u7ED8", "u753B", "u5DE5", "u5177">> >>  \* 绘画工具
       ],
       [category |-> "shishang",  \* 时尚
        gifts |->
            << <<"u54C1", "u724C", "u5305", "u5305">>,  \* 品牌包包
               <<"u9970", "u54C1">>,  \* 饰品
               <<"u9999", "u6C34">>,  \* 香水
               <<"u65F6", "u5C1A", "u914D", "u4EF6">> >>  \* 时尚配件
       ] >>

\* self.sentiment_words["positive"]
PositiveWords ==
    << <<"u559C", "u6B22">>,  \* 喜欢
       <<"u7231">>,  \* 爱
       <<"u597D">>,  \* 好
       <<"u68D2">>,  \* 棒
       <<"u8D5E">>,  \* 赞
       <<"u4EAB", "u53D7">>,  \* 享受
       <<"u671F", "u5F85">>,  \* 期待
       <<"u611F", "u6069">> >>  \* 感恩

\* self.sentiment_words["negative"]
NegativeWords ==
    << <<"u8BA8", "u538C">>,  \* 讨厌
       <<"u70E6">>,  \* 烦
       <<"u5DEE">>,  \* 差
       <<"u7CDF">>,  \* 糟
       <<"u5931", "u671B">>,  \* 失望
       <<"u96BE", "u8FC7">>,  \* 难过
       <<"u751F", "u6C14">> >>  \* 生气

\* the list recommend_gifts returns when no interest was counted
GenericGifts ==
    << <<"u901A", "u7528", "u793C", "u54C1", "u5361">>,  \* 通用礼品卡
       <<"u7CBE", "u7F8E", "u793C", "u54C1", "u76D2">>,  \* 精美礼品盒
       <<"u624B", "u5DE5", "u5DE7", "u514B", "u529B">> >>  \* 手工巧克力

\* The posts of the analysed timelines: the text, and the tags of the post's
\* entities (none when the post has no 'entities').
AnalyzerPosts ==
    { [text |-> <<"u6211", "u559C", "u6B22", "u8FD9", "u4E2A">>,  \* 我喜欢这个
        tags |-> <<>>],
      [text |-> <<"u6211", "u8BA8", "u538C", "u8FD9", "u4E2A">>,  \* 我讨厌这个
        tags |-> <<>>],
      [text |-> <<"u6E38", "u620F", "u673A">>,  \* 游戏机
        tags |-> <<>>],
      [text |-> <<"u667A", "u80FD", "u624B", "u8868">>,  \* 智能手表
        tags |-> <<>>],
      [text |-> <<"u65E0", "u7EBF", "u8033", "u673A", "u548C", "u667A", "u80FD", "u624B", "u8868">>,  \* 无线耳机和智能手表
        tags |-> <<>>],
      [text |-> <<"u6E38", "u620F", "u624B", "u67C4", "u548C", "u84DD", "u7259", "u97F3", "u7BB1">>,  \* 游戏手柄和蓝牙音箱
        tags |-> <<>>],
      [text |-> <<"u7F8E", "u98DF", "u793C", "u5238">>,  \* 美食礼券
        tags |-> <<>>],
      [text |-> <<"u7231", "u597D">>,  \* 爱好
        tags |-> <<<<"#", "u8FD0", "u52A8", "u978B">>>>] }  \* #运动鞋

\* str.lower(): the cased characters become lower case, every other
\* character (the Chinese ones among them) stays.
UpperCase == <<"A", "B", "C", "D", "E", "F", "G", "H", "I", "J", "K", "L", "M",
               "N", "O", "P", "Q", "R", "S", "T", "U", "V", "W", "X", "Y", "Z">>
LowerCase == <<"a", "b", "c", "d", "e", "f", "g", "h", "i", "j", "k", "l", "m",
               "n", "o", "p", "q", "r", "s", "t", "u", "v", "w", "x", "y", "z">>
LowerChar(ch) ==
    IF \E i \in 1..Len(UpperCase) : UpperCase[i] = ch
    THEN LowerCase[CHOOSE i \in 1..Len(UpperCase) : UpperCase[i] = ch]
    ELSE ch
Lower(s) == [i \in 1..Len(s) |-> LowerChar(s[i])]

\* word in text
Contains(text, word) ==
    \E i \in 0..(Len(text) - Len(word)) :
        SubSeq(text, i + 1, i + Len(word)) = word

\* A dict is the sequence of its items, in insertion order.
\* d.get(key, 0)
DictGet(d, key) ==
    IF \E i \in 1..Len(d) : d[i].key = key
    THEN d[CHOOSE i \in 1..Len(d) : d[i].key = key].value
    ELSE 0
\* d[key] = value: a key the dict has keeps its place, a new key goes last
DictSet(d, key, value) ==
    IF \E i \in 1..Len(d) : d[i].key = key
    THEN [i \in 1..Len(d) |->
              IF d[i].key = key THEN [key |-> key, value |-> value] ELSE d[i]]
    ELSE Append(d, [key |-> key, value |-> value])

RECURSIVE ScoreWords(_, _)
\* for word in words: if word in text: 1 each
ScoreWords(words, text) ==
    IF words = <<>> THEN 0
    ELSE (IF Contains(text, Head(words)) THEN 1 ELSE 0)
         + ScoreWords(Tail(words), text)

\* for keyword in keywords: if keyword in text:
\*     interests[category] = interests.get(category, 0) + 1
\* (one count for every keyword of the category the text contains)
CountKeywords(keywords, category, text, interests) ==
    LET hits == Cardinality({i \in 1..Len(keywords) :
                                 Contains(text, keywords[i])})
    IN IF hits = 0 THEN interests
       ELSE DictSet(interests, category, DictGet(interests, category) + hits)

RECURSIVE CountText(_, _, _)
\* for category, keywords in self.interest_gift_mapping.items(): ...
CountText(mapping, text, interests) ==
    IF mapping = <<>> THEN interests
    ELSE CountText(Tail(mapping), text,
             CountKeywords(Head(mapping).gifts, Head(mapping).category,
                           text, interests))

RECURSIVE CountTag(_, _, _)
\* for category, keywords in self.interest_gift_mapping.items():
\*     if any(keyword.lower() in tag for keyword in keywords): one count
CountTag(mapping, tag, interests) ==
    IF mapping = <<>> THEN interests
    ELSE LET category == Head(mapping).category
             keywords == Head(mapping).gifts
         IN CountTag(Tail(mapping), tag,
                IF \E i \in 1..Len(keywords) : Contains(tag, Lower(keywords[i]))
                THEN DictSet(interests, category,
                             DictGet(interests, category) + 1)
                ELSE interests)

RECURSIVE CountTags(_, _)
\* for entity in entities: tag = entity.get('tag', '').lower(); ...
CountTags(tags, interests) ==
    IF tags = <<>> THEN interests
    ELSE CountTags(Tail(tags),
                   CountTag(InterestGiftMapping, Lower(Head(tags)), interests))

\* sentiment_score / max(tweet_count, 1), kept as the two numbers divided
Fraction(num, den) == [num |-> num, den |-> den]
Max(a, b) == IF a >= b THEN a ELSE b

RECURSIVE TweetsLoop(_, _, _, _)
\* for tweet in tweets_data['data'], from the posts still to visit and the
\* three accumulators
TweetsLoop(data, interests, sentiment_score, tweet_count) ==
    IF data = <<>>
    THEN [interests |-> interests,
          sentiment |-> Fraction(sentiment_score, Max(tweet_count, 1))]
    ELSE LET tweet == Head(data)
             text == Lower(tweet.text)
         IN Let([interests |->
                     CountTags(tweet.tags,
                               CountText(InterestGiftMapping, text, interests)),
                 sentiment_score |->
                     sentiment_score + ScoreWords(PositiveWords, text)
                                     - ScoreWords(NegativeWords, text)],
                LAMBDA acc : TweetsLoop(Tail(data), acc.interests,
                                        acc.sentiment_score, tweet_count + 1))

\* An analysis that averages over one post more than it visited.
AnalyzeTweetsCountsFromOne(tweets_data) ==
    IF ~tweets_data.has_data
    THEN [interests |-> <<>>, sentiment |-> Fraction(0, 1)]
    ELSE TweetsLoop(tweets_data.data, <<>>, 0, 1)

\* GiftAnalyzer.analyze_tweets(tweets_data)
AnalyzeTweets(tweets_data) ==
    IF ~tweets_data.has_data
    THEN [interests |-> <<>>, sentiment |-> Fraction(0, 1)]
    ELSE TweetsLoop(tweets_data.data, <<>>, 0, 0)

RECURSIVE InsertByCount(_, _)
\* items, ordered by count descending, with item put after the items whose
\* count is at least its own
InsertByCount(items, item) ==
    IF items = <<>> THEN <<item>>
    ELSE IF Head(items).value >= item.value
         THEN <<Head(items)>> \o InsertByCount(Tail(items), item)
         ELSE <<item>> \o items

RECURSIVE SortedAscending(_)
\* A sort by count that puts the smallest count first.
SortedAscending(items) ==
    IF items = <<>> THEN <<>>
    ELSE LET rest == SortedAscending(SubSeq(items, 1, Len(items) - 1))
             item == items[Len(items)]
             before == SelectSeq(rest, LAMBDA x : x.value <= item.value)
             after == SelectSeq(rest, LAMBDA x : x.value > item.value)
         IN before \o <<item>> \o after

RECURSIVE SortedInterests(_)
\* sorted(interests.items(), key=lambda x: x[1], reverse=True): a stable
\* sort, items of equal count keep the order they have in interests
SortedInterests(items) ==
    IF items = <<>> THEN <<>>
    ELSE InsertByCount(SortedInterests(SubSeq(items, 1, Len(items) - 1)),
                       items[Len(items)])

\* s[:n]
Prefix(s, n) == SubSeq(s, 1, IF Len(s) < n THEN Len(s) ELSE n)

\* the categories counted most often that recommend_gifts draws from
TopCategories == 3
\* the gifts recommend_gifts takes of one category
GiftsPerCategory == 2
\* the length recommend_gifts cuts its list to
MaxRecommendations == 5

\* self.interest_gift_mapping[category]
GiftsOf(category) ==
    InterestGiftMapping[CHOOSE i \in 1..Len(InterestGiftMapping) :
                            InterestGiftMapping[i].category = category].gifts

RECURSIVE ExtendWithGifts(_, _)
\* for category, _ in top: recommendations.extend(mapping[category][:2])
ExtendWithGifts(top, recommendations) ==
    IF top = <<>> THEN recommendations
    ELSE ExtendWithGifts(Tail(top),
             recommendations
                 \o Prefix(GiftsOf(Head(top).key), GiftsPerCategory))

\* A recommendation without the branch for an analysis that counted nothing.
RecommendGiftsNoFallback(analysis_result) ==
    Prefix(ExtendWithGifts(Prefix(SortedInterests(analysis_result.interests),
                                  TopCategories), <<>>),
           MaxRecommendations)

\* GiftAnalyzer.recommend_gifts(analysis_result)
RecommendGifts(analysis_result) ==
    LET interests == analysis_result.interests IN
    IF interests = <<>> THEN GenericGifts
    ELSE Prefix(ExtendWithGifts(Prefix(SortedInterests(interests),
                                       TopCategories), <<>>),
                MaxRecommendations)

(***************************************************************************)
(* The analyzer applied to a timeline, as lines 377-379 apply it           *)
(***************************************************************************)
RECURSIVE PostLists(_)
\* the lists of at most n posts
PostLists(n) ==
    IF n = 0 THEN {<<>>}
    ELSE LET shorter == PostLists(n - 1) IN
         shorter \cup {Append(l, p) : l \in {s \in shorter : Len(s) = n - 1},
                                      p \in AnalyzerPosts}

\* What analyze_tweets is given: a body without 'data', or a list of posts.
AnalyzerInputs ==
    {[kind |-> "tweets", has_data |-> FALSE, data |-> <<>>]}
    \cup {[kind |-> "tweets", has_data |-> TRUE, data |-> l] :
              l \in PostLists(MaxPosts)}

\* analysis_result = analyzer.analyze_tweets(tweets_data)
CallAnalyzeTweets ==
    /\ last.op = "none"
    /\ \E tweets_data \in AnalyzerInputs :
           last' = [op |-> "analyze_tweets", tweets_data |-> tweets_data,
                    result |-> AnalyzeTweets(tweets_data),
                    user |-> NotCalled, tweets |-> NotCalled]
    /\ steps' = steps + 1
    /\ UNCHANGED <<now, cache, rate_limit, window_calls>>

\* gift_recommendations = analyzer.recommend_gifts(analysis_result)
CallRecommendGifts ==
    /\ last.op = "analyze_tweets"
    /\ last' = [op |-> "recommend_gifts", tweets_data |-> last.tweets_data,
                analysis_result |-> last.result,
                result |-> RecommendGifts(last.result),
                user |-> NotCalled, tweets |-> NotCalled]
    /\ steps' = steps + 1
    /\ UNCHANGED <<now, cache, rate_limit, window_calls>>

NextAnalyzer == CallAnalyzeTweets \/ CallRecommendGifts

SpecAnalyzer == Init /\ [][NextAnalyzer]_vars

(***************************************************************************)
(* Properties                                                              *)
(***************************************************************************)
IsAnalysis == last.op = "analyze_twitter_profile"
IsGetUser == last.op = "get_user_by_username"
IsGetTweets == last.op = "get_user_tweets"

\* The rate checks the most recent operation made.
LastChecks ==
    (IF last.user.called THEN {last.user.check} ELSE {})
    \cup (IF last.tweets.called THEN {last.tweets.check} ELSE {})

\* C1: every run of analyze_twitter_profile, whatever the input handle, the
\* HTTP answers and the cache content, ends by returning a report; no
\* exception escapes to the caller.
C1_AlwaysReturnsReport ==
    IsAnalysis =>
        /\ last.result.tag = "return"
        /\ last.result.v.kind = "report"

\* A run whose profile fetch failed and whose fallback cache read failed on a
\* damaged record: two errors in a row, and still a report.
C1_Witness ==
    /\ IsAnalysis
    /\ last.user.called
    /\ last.user.body.tag = "raise"
    /\ last.user.cached = Raise(CacheReadError)
    /\ last.result = Return(AnalysisFailedReport(CacheReadError))

\* C2: after requests_per_window calls answered with 200 within one window,
\* the rate check of the next call refuses it, with a positive wait time equal
\* to reset_time - now.
C2_RefusedAfterWindowLimit ==
    \A check \in LastChecks :
        (last.calls_before >= RequestsPerWindow /\ ~check.expired) =>
            /\ check.result.tag = "raise"
            /\ check.result.v.msg = "rate_limit_reached"
            /\ check.result.v.arg > 0
            /\ check.result.v.arg = check.rate_limit.reset_time - check.at

\* C3: a rate check that starts at or after reset_time resets the window
\* (remaining = requests_per_window, reset_time = now + window_size) and
\* permits the call.
C3_WindowResetBeforeDecision ==
    (IsGetUser \/ IsGetTweets) =>
        \A check \in LastChecks :
            check.at >= check.before.reset_time =>
                /\ rate_limit = check.rate_limit
                /\ rate_limit.remaining = check.before.requests_per_window
                /\ rate_limit.reset_time
                       = check.at + Minutes(check.before.window_size)
                /\ check.result.tag = "return"

\* A call checked strictly after the reset time of its window.
C3_Witness ==
    /\ IsGetUser
    /\ last.user.check.at > last.user.check.before.reset_time
    /\ last.user.requests >= 1

\* C4: after set(k, v) at time s, get(k) returns v while now - s <
\* cache_duration, whatever record k had before, and returns nothing once
\* now - s >= cache_duration.
C4_CacheRoundTrip ==
    (IsGetUser /\ last.user.body.tag = "return") =>
        LET got == CacheGet(cache, last.user.key, now)
            age == now - last.user.ended_at
        IN /\ age < CacheDuration => got = Return(last.user.body.v)
           /\ age >= CacheDuration => got = Return(None)

\* A set that replaced another payload, read again after the cache duration.
C4_Witness ==
    /\ IsGetUser
    /\ last.user.body.tag = "return"
    /\ last.user.fresh_before.tag = "return"
    /\ last.user.fresh_before.v # None
    /\ last.user.fresh_before.v # last.user.body.v
    /\ now - last.user.ended_at >= CacheDuration

\* The profile API answered 404 to the run's profile request.
AnsweredNotFound ==
    /\ IsAnalysis
    /\ last.user.called
    /\ last.user.body = Raise(UserNotFoundError)

C6_LeadingAtIsStripped ==
    \A h \in RawInputs :
        (<<"@">> \o h) \in RawInputs =>
            \A script \in UserScripts, answer \in TweetsAnswers :
                LET with == AnalyzeTwitterProfile(<<"@">> \o h, script, answer,
                                                  cache, now)
                    without == AnalyzeTwitterProfile(h, script, answer,
                                                     cache, now)
                IN /\ with.result = without.result
                   /\ with.user = without.user
                   /\ with.cache = without.cache

\* C7: when the cache holds an unexpired record for the handle,
\* get_user_by_username returns it without consulting the rate limiter and
\* without any HTTP request.
C7_CacheBeforeNetwork ==
    (/\ IsGetUser
     /\ last.user.fresh_before.tag = "return"
     /\ last.user.fresh_before.v # None) =>
        /\ last.user.rate_checks = 0
        /\ last.user.requests = 0
        /\ last.result = Return(last.user.fresh_before.v)

\* C8: whenever the try body of get_user_by_username fails, one cache read
\* under "user_<handle>" follows; data it yields is returned instead of the
\* error, and the original error propagates only when it yields nothing.
C8_FallbackToCache ==
    (IsGetUser /\ last.user.body.tag = "raise") =>
        /\ last.user.cache_reads = 1
        /\ last.user.cached = CacheGet(cache, last.user.key, last.user.ended_at)
        /\ (last.user.cached.tag = "return" /\ last.user.cached.v # None)
               => last.result = Return(last.user.cached.v)
        /\ last.user.cached = Return(None) => last.result = last.user.body
        /\ last.result = last.user.body => last.user.cached = Return(None)

\* A 404 answered from the cache.
C8_Witness ==
    /\ IsGetUser
    /\ last.user.body = Raise(UserNotFoundError)
    /\ last.user.cached.tag = "return"
    /\ last.user.cached.v # None
    /\ last.result = Return(last.user.cached.v)

\* The posts request of the run failed: a rate-limit refusal, a network
\* failure or a status other than 200.
PostsFetchFailed ==
    /\ last.tweets.called
    /\ \/ last.tweets.body.tag = "raise"
       \/ (last.tweets.requests = 1 /\ last.tweets.answer.status = 404)

\* C9: get_user_tweets never raises; when its request fails it returns an
\* empty post list, and the run that called it returns a normal report over
\* zero posts.
C9_PostsFailureIsNotFatal ==
    IsAnalysis =>
        /\ last.tweets.called => last.tweets.result.tag = "return"
        /\ PostsFetchFailed =>
               /\ last.tweets.result = Return(EmptyTweets)
               /\ last.result = Return(AnalysisReport(EmptyTweets))
               /\ last.result.v.total_tweets = 0

\* A run whose posts request failed at network level.
C9_Witness ==
    /\ IsAnalysis
    /\ last.tweets.called
    /\ last.tweets.body = Raise(NetworkError)
    /\ last.result.v.title = "analysis_report"

\* C10: after a request answered with 200, of either operation, a cache get
\* for the operation's key returns the fetched payload.
C10_WriteThrough ==
    /\ (IsGetUser /\ last.user.body.tag = "return") =>
           CacheGet(cache, last.user.key, last.user.ended_at)
               = Return(last.user.body.v)
    /\ (/\ IsGetTweets
        /\ last.tweets.requests = 1
        /\ ~last.tweets.answer.raised
        /\ last.tweets.answer.status = 200) =>
           CacheGet(cache, TweetsKey(last.tweets.user_id), last.tweets.ended_at)
               = Return(last.tweets.answer.body)

IsAnalyzeTweets == last.op = "analyze_tweets"
IsRecommendGifts == last.op = "recommend_gifts"

\* The place of a category in the category dictionary.
DefinitionIndex(category) ==
    CHOOSE i \in 1..Len(InterestGiftMapping) :
        InterestGiftMapping[i].category = category

\* The items of interests by count descending; Before(i, j) says whether, of
\* two items of equal count, the i-th of interests goes before the j-th.
RankedInterests(interests, Before(_, _)) ==
    LET n == Len(interests)
        place(i) ==
            1 + Cardinality({j \in 1..n :
                    \/ interests[j].value > interests[i].value
                    \/ /\ interests[j].value = interests[i].value
                       /\ Before(j, i)})
    IN [k \in 1..n |-> interests[CHOOSE i \in 1..n : place(i) = k]]

\* The first two gifts of each of the first three categories of ranked, cut
\* to five.
GiftsOfRanked(ranked) ==
    LET gifts(k) == IF k <= Len(ranked)
                    THEN Prefix(GiftsOf(ranked[k].key), 2)
                    ELSE <<>>
    IN Prefix(gifts(1) \o gifts(2) \o gifts(3), 5)

\* C12 as stated: for non-empty interestCounts, recommend_gifts returns the
\* first two gifts of each of the three categories counted most often, ties
\* broken by the order in which the category dictionary defines the
\* categories, cut to five; the result has at most five items.
C12_TiesByDefinitionOrder ==
    (IsRecommendGifts /\ last.analysis_result.interests # <<>>) =>
        LET interests == last.analysis_result.interests IN
        /\ Len(last.result) <= 5
        /\ last.result =
               GiftsOfRanked(RankedInterests(interests,
                   LAMBDA i, j : DefinitionIndex(interests[i].key)
                                     < DefinitionIndex(interests[j].key)))

\* C12 as amended: for non-empty interestCounts, recommend_gifts returns the
\* first two gifts of each of the three categories counted most often, ties
\* broken by the order in which the categories were inserted into
\* interestCounts, cut to five; the result has at most five items.
C12_TiesByInsertionOrder ==
    (IsRecommendGifts /\ last.analysis_result.interests # <<>>) =>
        LET interests == last.analysis_result.interests IN
        /\ Len(last.result) <= 5
        /\ last.result =
               GiftsOfRanked(RankedInterests(interests, LAMBDA i, j : i < j))

\* Four categories, two of equal count inserted against the definition
\* order, and a list that was cut to five.
C12_Witness ==
    /\ IsRecommendGifts
    /\ Len(last.analysis_result.interests) >= 4
    /\ Len(last.result) = 5
    /\ LET interests == last.analysis_result.interests IN
       \E i, j \in 1..Len(interests) :
           /\ i < j
           /\ interests[i].value = interests[j].value
           /\ DefinitionIndex(interests[i].key)
                  > DefinitionIndex(interests[j].key)

\* C13: recommend_gifts returns the fixed generic list of three gifts when
\* interestCounts is empty, and in no other case.
C13_GenericListIffNoInterest ==
    IsRecommendGifts =>
        /\ last.analysis_result.interests = <<>> =>
               (last.result = GenericGifts /\ Len(last.result) = 3)
        /\ last.result = GenericGifts =>
               last.analysis_result.interests = <<>>

\* Posts were analysed, none matched a keyword, and the generic list came out.
C13_Witness ==
    /\ IsRecommendGifts
    /\ last.tweets_data.has_data
    /\ Len(last.tweets_data.data) >= 2
    /\ last.analysis_result.interests = <<>>
    /\ last.result = GenericGifts

\* The words of words found in the lower-cased text.
C14_Hits(words, text) ==
    Cardinality({i \in 1..Len(words) : Contains(Lower(text), words[i])})

RECURSIVE C14_SumOfHits(_)
\* The positive hits minus the negative hits, summed over posts.
C14_SumOfHits(posts) ==
    IF posts = <<>> THEN 0
    ELSE C14_Hits(PositiveWords, Head(posts).text)
         - C14_Hits(NegativeWords, Head(posts).text)
         + C14_SumOfHits(Tail(posts))

\* C14: analyze_tweets returns sentiment = (positive hits minus negative
\* hits, summed over the posts) / max(postCount, 1); an empty post list or a
\* body without posts gives interests = {} and sentiment = 0.
C14_SentimentIsAverage ==
    IsAnalyzeTweets =>
        LET posts == PostsOf(last.tweets_data)
            sentiment == last.result.sentiment
        IN /\ sentiment.den > 0
           /\ sentiment.num * Max(Len(posts), 1)
                  = C14_SumOfHits(posts) * sentiment.den
           /\ posts = <<>> =>
                  (last.result.interests = <<>> /\ sentiment.num = 0)

\* Two posts, one positive hit and one negative hit: sentiment 0.
C14_Witness ==
    /\ IsAnalyzeTweets
    /\ Len(PostsOf(last.tweets_data)) = 2
    /\ \E i \in 1..2 :
           C14_Hits(PositiveWords, last.tweets_data.data[i].text) = 1
    /\ \E i \in 1..2 :
           C14_Hits(NegativeWords, last.tweets_data.data[i].text) = 1
    /\ last.result.sentiment.num = 0

\* The profile fetch of the run failed on a quota condition: the rate check
\* refused the call, or the API answered 429.
QuotaConditionMet ==
    /\ IsAnalysis
    /\ last.user.called
    /\ last.user.body.tag = "raise"
    /\ \/ last.user.body.v.msg = "rate_limit_reached"
       \/ last.user.body.v = ApiRequestFailedError(429)

\* C11: when the profile fetch fails on a quota condition and the cache has
\* no data to put in its place, the run returns a quota-wait report of its
\* own, not the generic failure report nor any other report.
C11_QuotaReportIsDistinct ==
    (QuotaConditionMet /\ last.user.cached = Return(None)) =>
        /\ last.result.tag = "return"
        /\ last.result.v.title
               \notin {"analysis_failed", "user_not_found", "auth_failed",
                       "invalid_username", "invalid_user_data",
                       "analysis_report"}

\* C15: a corrupt record reads as absent: a failed profile fetch whose
\* fallback read meets a corrupt record raises its original error.
C15_CorruptRecordIsAbsent ==
    (/\ IsGetUser
     /\ last.user.body.tag = "raise"
     /\ cache[GetCachePath(last.user.key)].kind = "corrupt") =>
        /\ last.user.cached = Return(None)
        /\ last.result = last.user.body

\* C16: one get_user_by_username call issues at most three requests; every
\* request but the last failed at network level; a response ends the call
\* with the outcome its status decides; the network error is raised exactly
\* when three requests in a row failed at network level.
C16_BoundedRetry ==
    (IsGetUser /\ last.user.requests >= 1) =>
        LET n == last.user.requests
            answers == last.user.answers
        IN /\ n <= 3
           /\ Len(answers) = n
           /\ \A i \in 1..(n - 1) : answers[i].raised
           /\ ~answers[n].raised =>
                  /\ last.user.body = UserResponseOutcome(answers[n])
                  /\ last.user.ended_at
                         = last.user.check.at + (n - 1) * RetryDelay
           /\ last.user.body = Raise(NetworkError)
                  <=> (n = 3 /\ \A i \in 1..3 : answers[i].raised)

\* Three network failures in a row.
C16_Witness ==
    /\ IsGetUser
    /\ last.user.requests = 3
    /\ \A i \in 1..3 : last.user.answers[i].raised
    /\ last.user.body = Raise(NetworkError)

\* C17: the limiter keeps monthly_used, which never decreases, and refuses
\* every call once monthly_used >= monthly_limit, whatever the window.
C17_MonthlyCeiling ==
    \A check \in LastChecks :
        /\ "monthly_used" \in DOMAIN check.rate_limit
        /\ "monthly_limit" \in DOMAIN check.rate_limit
        /\ check.rate_limit.monthly_used >= check.before.monthly_used
        /\ check.before.monthly_used >= check.before.monthly_limit =>
               check.result.tag = "raise"

\* C18: a profile fetch that received 200 changes the cache at most at the
\* key "user_<handle>" of its handle; a failed profile fetch (with the cache
\* read of its fallback) and a posts fetch leave the cache as it was.
C18_CacheFrame ==
    [][/\ (last'.op = "get_user_by_username" /\ steps' # steps) =>
              IF last'.user.body.tag = "return"
              THEN \A p \in CachePaths \ {GetCachePath(UserKey(last'.input))} :
                       cache'[p] = cache[p]
              ELSE cache' = cache
       /\ (last'.op = "get_user_tweets" /\ steps' # steps) =>
              cache' = cache]_vars

\* A fetched profile is cached next to the record of another handle, and a
\* posts fetch answered 200 left both as they were.
C18_Witness ==
    /\ IsGetTweets
    /\ last.tweets.requests = 1
    /\ last.tweets.answer.status = 200
    /\ \E u1, u2 \in Usernames :
           /\ u1 # u2
           /\ cache[GetCachePath(UserKey(u1))].kind = "record"
           /\ cache[GetCachePath(UserKey(u2))].kind = "record"
    /\ \A i \in UserIds : cache[GetCachePath(TweetsKey(i))] = Absent

\* C19: a run returns the invalid-username report without calling the API
\* client, or calls get_user_by_username with a handle that is not empty and
\* does not start with '@'.
C19_HandleIsValidated ==
    IsAnalysis =>
        \/ /\ ~last.user.called
           /\ last.result = Return(InvalidUsernameReport)
        \/ /\ last.user.called
           /\ last.user.username # <<>>
           /\ Head(last.user.username) # "@"

\* The HTTP requests of the two calls of the most recent run.
UserRequests == IF last.user.called THEN last.user.requests ELSE 0
TweetsRequests == IF last.tweets.called THEN last.tweets.requests ELSE 0

\* C20: in one run, the posts call is made only after get_user_by_username
\* returned a payload with 'data'; it issues at most one request; the run
\* issues at most three profile requests and four requests in all; a profile
\* fetch that raised is followed by no posts call.
C20_RequestOrderAndBound ==
    IsAnalysis =>
        /\ last.tweets.called =>
               /\ last.user.called
               /\ last.user.result.tag = "return"
               /\ last.user.result.v.has_data
               /\ last.tweets.check.at >= last.user.ended_at
        /\ TweetsRequests <= 1
        /\ UserRequests <= 3
        /\ UserRequests + TweetsRequests <= 4
        /\ (last.user.called /\ last.user.result.tag = "raise") =>
               ~last.tweets.called

\* Two network failures, a profile at the third attempt, then the posts
\* request: four requests.
C20_Witness ==
    /\ IsAnalysis
    /\ UserRequests = 3
    /\ TweetsRequests = 1
    /\ last.result.v.title = "analysis_report"

====
